---- MODULE Spec2Model ----
(***************************************************************************)
(* webmcast: the HTTP handler of server.py (publisher POST, subscriber     *)
(* GET, the reap timer "collect", the subscriber task "writer"), the       *)
(* Broadcast wrapper class and the on_chunk_cb queue bridge.               *)
(*                                                                         *)
(* Everything runs on one asyncio event loop, so a step of the model is    *)
(* the code a task runs between two suspension points.                     *)
(***************************************************************************)
EXTENDS Integers, Sequences, FiniteSets, TLC

\* ------------------------------------------------------------------ bounds
MaxBroadcasts == 2      \* Broadcast objects constructed in one behaviour
MaxPubs       == 2      \* publisher requests in flight at once
MaxSubs       == 2      \* subscriber requests in flight at once
MaxTimers     == 2      \* collect() tasks pending at once
MaxChunks     == 2      \* chunks the publishers get through send() in one behaviour
MaxTs         == 1      \* largest cluster timestamp a publisher sends

Names    == {"x"}
BIds     == 1..MaxBroadcasts
PubIds   == 1..MaxPubs
SubIds   == 1..MaxSubs
TimerIds == 1..MaxTimers
Stamps   == 0..MaxTs

NoStream == 0           \* the name is not a key of streams / no object held
NoTimer  == 0           \* the task slot holds no pending collect() task
\* values of collectors: no key, a pending collect() task, a task that has run
NoEntry    == [fut |-> "absent", task |-> NoTimer]
Done       == [fut |-> "done", task |-> NoTimer]
Pending(t) == [fut |-> "pending", task |-> t]
NoOffset == -1          \* the subscriber's ts_offset is not set yet
NoReq    == [stream_id |-> "", stream |-> NoStream, made |-> FALSE, clock |-> 0]
NoResp   == [stream_id |-> "", code |-> 0, exc |-> ""]
NoSend   == [stream |-> NoStream, evs |-> <<>>, ts |-> 0]

VARIABLES
    streams,     \* handle.streams: name -> Broadcast (weak values)
    collectors,  \* handle.collectors: name -> future of collect()
    timers,      \* pending collect() tasks: the Broadcast each closure holds
    created,     \* number of Broadcast objects constructed so far
    stopped,     \* Broadcast (asyncio.Event) flag, set by stop()
    obj,         \* native session of each Broadcast (broadcast_start)
    pub,         \* publisher requests inside the read/send loop
    sub,         \* subscriber requests: handler, writer task and queue
    sent,        \* number of chunks dispatched so far
    resp,        \* the refusal (403, 404) the last step answered with or the
                 \* exception that left handle() in it, if any
    last         \* the chunk the last step sent, if any: the Broadcast, the parser events

vars == <<streams, collectors, timers, created, stopped, obj, pub, sub, sent, resp, last>>

\* ------------------------------------------------------------- subscribers
\* h: the GET handler ("responding", "gone")
\* w: the writer task ("created", "waiting", "cancelled", "done")
Idle == [h |-> "gone", w |-> "done", stream |-> NoStream, queue |-> <<>>,
         closed |-> FALSE, connects |-> 0, disconnects |-> 0,
         ts_offset |-> NoOffset]

\* the request slot is free: no handler and no writer task is alive in it
Free(r) == r.h = "gone" /\ r.w = "done"

\* ------------------------------------------------------------- on_chunk_cb
\* faulty variant of on_chunk_cb: the chunk is put at the front of the queue
on_chunk_cb_front(queue, data, force) ==
    IF ~force /\ Len(queue) > 0 THEN queue ELSE <<data>> \o queue

\* faulty variant of on_chunk_cb: every chunk is accepted, forced or not
on_chunk_cb_always(queue, data, force) == Append(queue, data)

\* def _(handle, data, size, force): the queue after the call
on_chunk_cb_queue(queue, data, force) ==
    IF ~force /\ Len(queue) > 0 THEN queue ELSE Append(queue, data)

\* def _(handle, data, size, force): the value returned to the native caller
on_chunk_cb(queue, data, force) ==
    IF ~force /\ Len(queue) > 0 THEN -1 ELSE 0

\* ---------------------------------------------------------- native session
\* broadcast_start(): a fresh session, no header yet, nobody connected
broadcast_start == [header_closed |-> FALSE, cluster_open |-> FALSE,
                    cluster_base_ts |-> 0, slots |-> {}]

\* what the parser makes of one chunk read from the publisher: the header
\* through Tracks, the header and the first cluster's prefix, a cluster
\* prefix, bytes inside a cluster, or bytes it rejects
Chunks == {<<"header">>, <<"header", "cluster">>, <<"cluster">>, <<"body">>,
           <<"invalid">>}

\* header bytes and cluster prefixes are pushed with force = 1, live or priming
Forced(kind) == kind \in {"header", "cluster", "header_buffer", "cluster_prefix"}

\* the parser accepts the event in the session's state (else BadContainer)
ParserAccepts(o, ev) ==
    CASE ev = "header"  -> ~o.header_closed
      [] ev = "cluster" -> o.header_closed
      [] ev = "body"    -> o.cluster_open
      [] OTHER          -> FALSE

\* the session after an accepted event; ts is the Timecode of a cluster
ParserStep(o, ev, ts) ==
    CASE ev = "header"  -> [o EXCEPT !.header_closed = TRUE]
      [] ev = "cluster" -> [o EXCEPT !.cluster_open = TRUE, !.cluster_base_ts = ts]
      [] OTHER          -> o

RECURSIVE ParserRun(_, _, _)
\* the session after the events of a chunk
ParserRun(o, evs, ts) ==
    IF evs = <<>> THEN o
    ELSE ParserRun(ParserStep(o, Head(evs), ts), Tail(evs), ts)

RECURSIVE ChunkAccepted(_, _)
\* broadcast_send() returns 0: every event of the chunk is accepted in turn
ChunkAccepted(o, evs) ==
    IF evs = <<>> THEN TRUE
    ELSE /\ ParserAccepts(o, Head(evs))
         /\ ChunkAccepted(ParserStep(o, Head(evs), 0), Tail(evs))

\* the pieces dispatched for a chunk, stamped in dispatch order
Pieces(evs, n) == [i \in 1..Len(evs) |-> [seq |-> n, part |-> i, kind |-> evs[i]]]

\* the bytes enqueued for a piece: a cluster prefix carries the Timecode tc
Stamp(c, tc) ==
    [seq |-> c.seq, part |-> c.part, kind |-> c.kind,
     timecode |-> IF c.kind \in {"cluster", "cluster_prefix"} THEN tc ELSE 0]

\* a subscriber's copy of the pieces, the Timecode rewritten to tc
Rewrite(cs, tc) == [i \in DOMAIN cs |-> Stamp(cs[i], tc)]

\* the pieces as dispatched, without the subscriber's Timecode
Framing(q) == [i \in DOMAIN q |-> [seq |-> q[i].seq, part |-> q[i].part, kind |-> q[i].kind]]

\* chunks a connecting subscriber is primed with (all forced); the cluster
\* prefix is rewritten to Timecode 0 (ts_offset = cluster_base_ts)
Priming(o, n) ==
    (IF o.header_closed
     THEN <<Stamp([seq |-> n, part |-> 1, kind |-> "header_buffer"], 0)>> ELSE <<>>)
    \o (IF o.cluster_open
        THEN <<Stamp([seq |-> n, part |-> 2, kind |-> "cluster_prefix"], 0)>> ELSE <<>>)

\* ts_offset of a subscriber that connects now: the open cluster's timestamp;
\* not set before the first cluster; 0 for one present since the stream's start
PrimingOffset(o) ==
    IF o.cluster_open THEN o.cluster_base_ts
    ELSE IF o.header_closed THEN NoOffset ELSE 0

\* the piece is forced / is not the retained header buffer
IsForced(c) == Forced(c.kind)
IsLive(c)   == c.kind # "header_buffer"

RECURSIVE PushAll(_, _)
\* on_chunk_cb called once per piece of cs, in order
PushAll(queue, cs) ==
    IF cs = <<>> THEN queue
    ELSE PushAll(on_chunk_cb_queue(queue, Head(cs), Forced(Head(cs).kind)), Tail(cs))

\* broadcast_send(): on_chunk_cb once per piece and per connected slot; a
\* cluster prefix goes out with its Timecode rewritten to ts - ts_offset, and
\* sets the ts_offset of a subscriber that has none yet
broadcast_send(subs, o, cs, ts) ==
    [s \in SubIds |->
        IF s \in o.slots
        THEN LET off == IF subs[s].ts_offset = NoOffset THEN ts ELSE subs[s].ts_offset
                 begins == \E i \in DOMAIN cs : cs[i].kind = "cluster"
             IN  [subs[s] EXCEPT !.queue = PushAll(@, Rewrite(cs, ts - off)),
                                 !.ts_offset = IF begins THEN off ELSE @]
        ELSE subs[s]]

\* ---------------------------------------------------------------- registry
\* faulty variant of the references: a subscriber's handler and writer keep
\* the queue and the slot, but no reference to the Broadcast itself
HeldNoSubscriber(b, pubs, tmrs, subs) ==
    \/ \E p \in PubIds : pubs[p].stream = b
    \/ \E t \in TimerIds : tmrs[t] = b

\* strong references to Broadcast b: a publisher's frame, the closure of a
\* pending collect(), a subscriber's handler frame or writer frame
Held(b, pubs, tmrs, subs) ==
    \/ \E p \in PubIds : pubs[p].stream = b
    \/ \E t \in TimerIds : tmrs[t] = b
    \/ \E s \in SubIds : subs[s].stream = b /\ ~Free(subs[s])

\* weakref.WeakValueDictionary: an entry goes when its value is unreferenced
WeakValues(strs, pubs, tmrs, subs) ==
    [n \in Names |->
        IF strs[n] # NoStream /\ Held(strs[n], pubs, tmrs, subs)
        THEN strs[n] ELSE NoStream]

\* requests and tasks take the lowest free slot of the model
LowestFree(i, S, IsFree(_)) == IsFree(i) /\ \A j \in S : IsFree(j) => i <= j

FreePub(p)   == pub[p] = NoReq
FreeTimer(t) == timers[t] = NoTimer
FreeSub(s)   == Free(sub[s])

\* -------------------------------------------------------------------- Init
Init ==
    /\ streams    = [n \in Names |-> NoStream]
    /\ collectors = [n \in Names |-> NoEntry]
    /\ timers     = [t \in TimerIds |-> NoTimer]
    /\ created    = 0
    /\ stopped    = [b \in BIds |-> FALSE]
    /\ obj        = [b \in BIds |-> broadcast_start]
    /\ pub        = [p \in PubIds |-> NoReq]
    /\ sub        = [s \in SubIds |-> Idle]
    /\ sent       = 0
    /\ resp       = NoResp
    /\ last       = NoSend


\* --------------------------------------------------------------- publisher
\* handle, POST, `stream_id in streams` is false: a new Broadcast is registered
PostCreate(p, n) ==
    /\ LowestFree(p, PubIds, FreePub)
    /\ streams[n] = NoStream
    /\ created < MaxBroadcasts
    /\ created' = created + 1
    /\ pub' = [pub EXCEPT ![p] = [stream_id |-> n, stream |-> created + 1, made |-> TRUE, clock |-> 0]]
    /\ stopped' = [stopped EXCEPT ![created + 1] = FALSE]
    /\ obj' = [obj EXCEPT ![created + 1] = broadcast_start]
    /\ resp' = NoResp
    /\ last' = NoSend
    /\ UNCHANGED <<collectors, timers, sub, sent>>
    /\ streams' = WeakValues([streams EXCEPT ![n] = created + 1], pub', timers', sub')

\* handle, POST, the name is registered and collectors has an entry for it:
\* collectors.pop(stream_id).cancel(), then the registered Broadcast is fed
PostResume(p, n) ==
    /\ LowestFree(p, PubIds, FreePub)
    /\ streams[n] # NoStream
    /\ collectors[n] # NoEntry
    /\ collectors' = [collectors EXCEPT ![n] = NoEntry]
    /\ timers' = [t \in TimerIds |-> IF collectors[n] = Pending(t) THEN NoTimer ELSE timers[t]]
    /\ pub' = [pub EXCEPT ![p] = [stream_id |-> n, stream |-> streams[n], made |-> FALSE, clock |-> 0]]
    /\ resp' = NoResp
    /\ last' = NoSend
    /\ UNCHANGED <<created, stopped, obj, sub, sent>>
    /\ streams' = WeakValues(streams, pub', timers', sub')

\* faulty variant of the 403 path: the refusal is sent from inside the `try:`,
\* so that the `finally:` schedules collect() for the registered Broadcast
PostRejectInTry(n) ==
    /\ streams[n] # NoStream
    /\ collectors[n] = NoEntry
    /\ resp' = [stream_id |-> n, code |-> 403, exc |-> ""]
    /\ last' = NoSend
    /\ \E t \in TimerIds :
           /\ LowestFree(t, TimerIds, FreeTimer)
           /\ timers' = [timers EXCEPT ![t] = streams[n]]
           /\ collectors' = [collectors EXCEPT ![n] = Pending(t)]
    /\ UNCHANGED <<streams, created, stopped, obj, pub, sub, sent>>

\* handle, POST, the name is registered and collectors.pop raises KeyError
PostReject(n) ==
    /\ streams[n] # NoStream
    /\ collectors[n] = NoEntry
    /\ resp' = [stream_id |-> n, code |-> 403, exc |-> ""]
    /\ last' = NoSend
    /\ UNCHANGED <<streams, collectors, timers, created, stopped, obj, pub, sub, sent>>

\* the chunk begins a cluster
Begins(evs) == \E i \in DOMAIN evs : evs[i] = "cluster"

\* one pass of the read loop: a non-empty chunk that the parser accepts; the
\* cluster timestamps of one request's body do not decrease (ts is the latest)
PubSend(p, evs, ts) ==
    /\ pub[p] # NoReq
    /\ sent < MaxChunks
    /\ IF Begins(evs) THEN ts >= pub[p].clock ELSE ts = pub[p].clock
    /\ LET b == pub[p].stream
       IN  /\ ChunkAccepted(obj[b], evs)
           /\ sent' = sent + 1
           /\ sub' = broadcast_send(sub, obj[b], Pieces(evs, sent + 1), ts)
           /\ obj' = [obj EXCEPT ![b] = ParserRun(@, evs, ts)]
    /\ pub' = [pub EXCEPT ![p].clock = ts]
    /\ resp' = NoResp
    /\ last' = [stream |-> pub[p].stream, evs |-> evs, ts |-> ts]
    /\ UNCHANGED <<streams, collectors, timers, created, stopped>>

\* faulty variant of the `finally:`: stream.stop() is called at once, no
\* collect() is scheduled
FinallyStops(p) ==
    /\ stopped' = [stopped EXCEPT ![pub[p].stream] = TRUE]
    /\ pub' = [pub EXCEPT ![p] = NoReq]
    /\ UNCHANGED <<collectors, timers, created, obj, sub, sent>>
    /\ streams' = WeakValues(streams, pub', timers', sub')

\* the `finally:` of the read loop: collect() is scheduled and stored
Finally(p) ==
    /\ \E t \in TimerIds :
           /\ LowestFree(t, TimerIds, FreeTimer)
           /\ timers' = [timers EXCEPT ![t] = pub[p].stream]
           /\ collectors' = [collectors EXCEPT ![pub[p].stream_id] = Pending(t)]
    /\ pub' = [pub EXCEPT ![p] = NoReq]
    /\ UNCHANGED <<created, stopped, obj, sub, sent>>
    /\ streams' = WeakValues(streams, pub', timers', sub')

\* how the read loop is left: read() returned b'' ("eof"), send() raised
\* ValueError ("bad data", which leaves handle() after the `finally:`), the
\* request task was cancelled ("cancelled")
PubEnd(p, how) ==
    /\ pub[p] # NoReq
    /\ how = "bad data" => \E evs \in Chunks : ~ChunkAccepted(obj[pub[p].stream], evs)
    /\ Finally(p)
    /\ resp' = IF how = "bad data"
               THEN [stream_id |-> pub[p].stream_id, code |-> 0, exc |-> "ValueError"]
               ELSE NoResp
    /\ last' = NoSend

\* collect(): the sleep is over, stream.stop() runs and the task is done
TimerFire(t) ==
    /\ timers[t] # NoTimer
    /\ stopped' = [stopped EXCEPT ![timers[t]] = TRUE]
    /\ timers' = [timers EXCEPT ![t] = NoTimer]
    /\ collectors' = [n \in Names |-> IF collectors[n] = Pending(t) THEN Done ELSE collectors[n]]
    /\ resp' = NoResp
    /\ last' = NoSend
    /\ UNCHANGED <<created, obj, pub, sub, sent>>
    /\ streams' = WeakValues(streams, pub', timers', sub')

\* -------------------------------------------------------------- subscriber
\* the request's objects are dropped once handler and writer are both over
Retire(r) == IF Free(r) THEN Idle ELSE r

\* faulty variant of connect: broadcast_connect is called with skip_headers
\* set, the header buffer is not part of the priming
ConnectSkipHeaders(r, o, n) ==
    [r EXCEPT !.queue = PushAll(@, SelectSeq(Priming(o, n), IsLive)),
              !.ts_offset = PrimingOffset(o),
              !.connects = @ + 1]

\* Broadcast.connect(queue): the slot is allocated and the queue is primed
Connect(r, o, n) ==
    [r EXCEPT !.queue = PushAll(@, Priming(o, n)),
              !.ts_offset = PrimingOffset(o),
              !.connects = @ + 1]

\* writer's `finally:`: stream.disconnect(handle); queue.close()
Release(r) ==
    [r EXCEPT !.disconnects = @ + 1, !.closed = TRUE, !.w = "done"]

\* handle, GET, KeyError on streams[stream_id]
GetMiss(n) ==
    /\ streams[n] = NoStream
    /\ resp' = [stream_id |-> n, code |-> 404, exc |-> ""]
    /\ last' = NoSend
    /\ UNCHANGED <<streams, collectors, timers, created, stopped, obj, pub, sub, sent>>

\* handle, GET: the queue is made, writer() is scheduled, respond(200) starts
GetStart(s, n) ==
    /\ LowestFree(s, SubIds, FreeSub)
    /\ streams[n] # NoStream
    /\ sub' = [sub EXCEPT ![s] = [Idle EXCEPT !.h = "responding", !.w = "created",
                                              !.stream = streams[n]]]
    /\ resp' = NoResp
    /\ last' = NoSend
    /\ UNCHANGED <<streams, collectors, timers, created, stopped, obj, pub, sent>>

\* writer(), first step: connect, then wait() (which returns at once when the
\* Event is already set, so that the `finally:` runs in the same step)
WriterRun(s) ==
    /\ sub[s].w = "created"
    /\ LET b == sub[s].stream
           r == Connect(sub[s], obj[b], sent)
       IN  IF stopped[b]
           THEN /\ sub' = [sub EXCEPT ![s] = Retire(Release(r))]
                /\ obj' = [obj EXCEPT ![b].slots = @ \ {s}]
           ELSE /\ sub' = [sub EXCEPT ![s] = [r EXCEPT !.w = "waiting"]]
                /\ obj' = [obj EXCEPT ![b].slots = @ \cup {s}]
    /\ resp' = NoResp
    /\ last' = NoSend
    /\ UNCHANGED <<collectors, timers, created, stopped, pub, sent>>
    /\ streams' = WeakValues(streams, pub', timers', sub')

\* faulty variant of the wake-up: the writer notices stop() only while a
\* publisher is feeding the Broadcast
WriterWakeNeedsPublisher(s) ==
    /\ sub[s].w = "waiting"
    /\ stopped[sub[s].stream]
    /\ \E p \in PubIds : pub[p].stream = sub[s].stream
    /\ sub' = [sub EXCEPT ![s] = Retire(Release(@))]
    /\ obj' = [obj EXCEPT ![sub[s].stream].slots = @ \ {s}]
    /\ resp' = NoResp
    /\ last' = NoSend
    /\ UNCHANGED <<collectors, timers, created, stopped, pub, sent>>
    /\ streams' = WeakValues(streams, pub', timers', sub')

\* faulty variant of the wake-up: the `finally:` closes the queue and leaves
\* out stream.disconnect(handle)
WriterWakeClosesOnly(s) ==
    /\ sub[s].w = "waiting"
    /\ stopped[sub[s].stream]
    /\ sub' = [sub EXCEPT ![s] = [@ EXCEPT !.closed = TRUE, !.w = "done"]]
    /\ resp' = NoResp
    /\ last' = NoSend
    /\ UNCHANGED <<collectors, timers, created, stopped, obj, pub, sent>>
    /\ streams' = WeakValues(streams, pub', timers', sub')

\* writer(), woken by stop(): the `finally:` runs
WriterWake(s) ==
    /\ sub[s].w = "waiting"
    /\ stopped[sub[s].stream]
    /\ sub' = [sub EXCEPT ![s] = Retire(Release(@))]
    /\ obj' = [obj EXCEPT ![sub[s].stream].slots = @ \ {s}]
    /\ resp' = NoResp
    /\ last' = NoSend
    /\ UNCHANGED <<collectors, timers, created, stopped, pub, sent>>
    /\ streams' = WeakValues(streams, pub', timers', sub')

\* faulty variant of the cancellation: the writer has no `finally:`, the task
\* ends without disconnect() and close()
WriterCancelledNoFinally(s) ==
    /\ sub[s].w = "cancelled"
    /\ sub' = [sub EXCEPT ![s] = Retire([@ EXCEPT !.w = "done"])]
    /\ resp' = NoResp
    /\ last' = NoSend
    /\ UNCHANGED <<collectors, timers, created, stopped, obj, pub, sent>>
    /\ streams' = WeakValues(streams, pub', timers', sub')

\* writer(), CancelledError delivered: before its first step nothing of the
\* body runs; at wait() the `finally:` runs
WriterCancelled(s) ==
    /\ sub[s].w = "cancelled"
    /\ IF sub[s].connects > sub[s].disconnects
       THEN /\ sub' = [sub EXCEPT ![s] = Retire(Release(@))]
            /\ obj' = [obj EXCEPT ![sub[s].stream].slots = @ \ {s}]
       ELSE /\ sub' = [sub EXCEPT ![s] = Retire([@ EXCEPT !.w = "done"])]
            /\ obj' = obj
    /\ resp' = NoResp
    /\ last' = NoSend
    /\ UNCHANGED <<collectors, timers, created, stopped, pub, sent>>
    /\ streams' = WeakValues(streams, pub', timers', sub')

\* handle, GET: respond() is cancelled or fails (client gone, write error);
\* `finally: writer.cancel()`
SubCancel(s) ==
    /\ sub[s].h = "responding"
    /\ sub' = [sub EXCEPT ![s] =
                 Retire([@ EXCEPT !.h = "gone",
                                  !.w = IF @ = "done" THEN "done" ELSE "cancelled"])]
    /\ resp' = NoResp
    /\ last' = NoSend
    /\ UNCHANGED <<collectors, timers, created, stopped, obj, pub, sent>>
    /\ streams' = WeakValues(streams, pub', timers', sub')

\* handle, GET: respond() returns, the queue is closed and drained
SubFinish(s) ==
    /\ sub[s].h = "responding"
    /\ sub[s].closed
    /\ sub[s].queue = <<>>
    /\ sub' = [sub EXCEPT ![s] = Retire([@ EXCEPT !.h = "gone"])]
    /\ resp' = NoResp
    /\ last' = NoSend
    /\ UNCHANGED <<collectors, timers, created, stopped, obj, pub, sent>>
    /\ streams' = WeakValues(streams, pub', timers', sub')

\* respond(): the body writer takes the next chunk out of the queue
Drain(s) ==
    /\ sub[s].h = "responding"
    /\ sub[s].queue # <<>>
    /\ sub' = [sub EXCEPT ![s].queue = Tail(@)]
    /\ resp' = NoResp
    /\ last' = NoSend
    /\ UNCHANGED <<streams, collectors, timers, created, stopped, obj, pub, sent>>

\* -------------------------------------------------------------------- Next
Next ==
    \/ \E p \in PubIds, n \in Names : PostCreate(p, n)
    \/ \E p \in PubIds, n \in Names : PostResume(p, n)
    \/ \E n \in Names : PostReject(n)
    \/ \E p \in PubIds, evs \in Chunks, ts \in Stamps : PubSend(p, evs, ts)
    \/ \E p \in PubIds, how \in {"eof", "bad data", "cancelled"} : PubEnd(p, how)
    \/ \E t \in TimerIds : TimerFire(t)
    \/ \E n \in Names : GetMiss(n)
    \/ \E s \in SubIds, n \in Names : GetStart(s, n)
    \/ \E s \in SubIds : WriterRun(s)
    \/ \E s \in SubIds : WriterWake(s)
    \/ \E s \in SubIds : WriterCancelled(s)
    \/ \E s \in SubIds : SubCancel(s)
    \/ \E s \in SubIds : SubFinish(s)
    \/ \E s \in SubIds : Drain(s)

Spec == Init /\ [][Next]_vars

\* the requests' life cycle alone: no chunk goes through send()
NextLifecycle ==
    \/ \E p \in PubIds, n \in Names : PostCreate(p, n)
    \/ \E p \in PubIds, n \in Names : PostResume(p, n)
    \/ \E n \in Names : PostReject(n)
    \/ \E p \in PubIds, how \in {"eof", "bad data", "cancelled"} : PubEnd(p, how)
    \/ \E t \in TimerIds : TimerFire(t)
    \/ \E n \in Names : GetMiss(n)
    \/ \E s \in SubIds, n \in Names : GetStart(s, n)
    \/ \E s \in SubIds : WriterRun(s)
    \/ \E s \in SubIds : WriterWake(s)
    \/ \E s \in SubIds : WriterCancelled(s)
    \/ \E s \in SubIds : SubCancel(s)
    \/ \E s \in SubIds : SubFinish(s)

Lifecycle == Init /\ [][NextLifecycle]_vars

\* the event loop keeps running the writer tasks that are ready
WriterFairness ==
    \A s \in SubIds : /\ WF_vars(WriterRun(s))
                       /\ WF_vars(WriterWake(s))
                       /\ WF_vars(WriterCancelled(s))

FairLifecycle == Lifecycle /\ WriterFairness

\* the life of the first Broadcast of a name, its chunks included, through
\* reconnects and reaping: no later Broadcast is constructed, and every
\* cluster carries the timestamp its request's body began with
NextDelivery ==
    \/ \E p \in PubIds, n \in Names : created = 0 /\ PostCreate(p, n)
    \/ \E p \in PubIds, n \in Names : PostResume(p, n)
    \/ \E n \in Names : PostReject(n)
    \/ \E n \in Names : GetMiss(n)
    \/ \E p \in PubIds, evs \in Chunks : PubSend(p, evs, pub[p].clock)
    \/ \E p \in PubIds, how \in {"eof", "bad data", "cancelled"} : PubEnd(p, how)
    \/ \E t \in TimerIds : TimerFire(t)
    \/ \E s \in SubIds, n \in Names : GetStart(s, n)
    \/ \E s \in SubIds : WriterRun(s)
    \/ \E s \in SubIds : WriterWake(s)
    \/ \E s \in SubIds : WriterCancelled(s)
    \/ \E s \in SubIds : SubCancel(s)
    \/ \E s \in SubIds : SubFinish(s)
    \/ \E s \in SubIds : Drain(s)

Delivery == Init /\ [][NextDelivery]_vars

\* Delivery without the body writers: what is enqueued stays in the queues,
\* POSTs are admitted, resumed and refused
NextAdmission ==
    \/ \E p \in PubIds, n \in Names : created = 0 /\ PostCreate(p, n)
    \/ \E p \in PubIds, n \in Names : PostResume(p, n)
    \/ \E n \in Names : PostReject(n)
    \/ \E p \in PubIds, evs \in Chunks : PubSend(p, evs, pub[p].clock)
    \/ \E p \in PubIds, how \in {"eof", "bad data", "cancelled"} : PubEnd(p, how)
    \/ \E t \in TimerIds : TimerFire(t)
    \/ \E s \in SubIds, n \in Names : GetStart(s, n)
    \/ \E s \in SubIds : WriterRun(s)
    \/ \E s \in SubIds : WriterWake(s)
    \/ \E s \in SubIds : WriterCancelled(s)
    \/ \E s \in SubIds : SubCancel(s)
    \/ \E s \in SubIds : SubFinish(s)

Admission == Init /\ [][NextAdmission]_vars

\* Delivery with one publisher request: the Broadcast it makes, the chunks it
\* sends, the subscribers and their body writers, the reap timer
NextFanout ==
    \/ \E p \in PubIds, n \in Names : created = 0 /\ PostCreate(p, n)
    \/ \E p \in PubIds, evs \in Chunks : PubSend(p, evs, pub[p].clock)
    \/ \E p \in PubIds, how \in {"eof", "bad data", "cancelled"} : PubEnd(p, how)
    \/ \E t \in TimerIds : TimerFire(t)
    \/ \E s \in SubIds, n \in Names : GetStart(s, n)
    \/ \E s \in SubIds : WriterRun(s)
    \/ \E s \in SubIds : WriterWake(s)
    \/ \E s \in SubIds : WriterCancelled(s)
    \/ \E s \in SubIds : SubCancel(s)
    \/ \E s \in SubIds : SubFinish(s)
    \/ \E s \in SubIds : Drain(s)

Fanout == Init /\ [][NextFanout]_vars



\* ------------------------------------------------------------------ claims
\* publisher requests inside the read loop that feed Broadcast b
Feeding(b) == {p \in PubIds : pub[p].stream = b}

\* collect() tasks still pending whose closure holds Broadcast b
PendingFor(b) == {t \in TimerIds : timers[t] = b}

\* the step admits a POST into the read loop as request p
Admitted(p) == pub[p] = NoReq /\ pub'[p] # NoReq

\* the step ends the read loop of request p
Ended(p) == pub[p] # NoReq /\ pub'[p] = NoReq

\* subscriber s is connected to its Broadcast: connect() ran, disconnect() not yet
Connected(s) == sub[s].connects > sub[s].disconnects

\* C1: at no time do two publisher sessions feed the same Broadcast (a POST
\* for a name whose Broadcast has a publisher and no pending reap timer is
\* refused).
C1_OnePublisherPerBroadcast == \A b \in BIds : Cardinality(Feeding(b)) <= 1

\* C2: a POST answered 403 changes nothing: the registry, the reap timers, the
\* stopped flags, the subscribers and their queues and the publishers are as
\* they were, and no reap timer is scheduled.
C2_RejectChangesNothing ==
    [][resp'.code = 403 =>
          UNCHANGED <<streams, collectors, timers, created, stopped, obj, pub, sub, sent>>]_vars

\* C2 witness: a POST was refused while a publisher streams to a Broadcast
\* that has a connected subscriber with a chunk in its queue.
C2_Witness ==
    /\ resp.code = 403
    /\ \E p \in PubIds, s \in SubIds :
          /\ pub[p] # NoReq
          /\ s \in obj[pub[p].stream].slots
          /\ sub[s].queue # <<>>

\* C3: a POST admitted for a Broadcast that has a reap timer pending cancels
\* that timer and feeds the same Broadcast object; the subscribers stay
\* connected and the Broadcast is not stopped: no reap timer of that Broadcast
\* is left pending to end their streams.
C3_ReconnectCancelsTimer ==
    [][\A p \in PubIds :
          (Admitted(p) /\ PendingFor(pub'[p].stream) # {}) =>
              /\ \A t \in TimerIds : timers'[t] # pub'[p].stream
              /\ pub'[p].stream = streams[pub'[p].stream_id]
              /\ obj' = obj
              /\ stopped' = stopped]_vars

\* C4: a POST that is admitted after the name's reap timer has fired feeds a
\* fresh Broadcast that is not stopped, never the old stopped one.
C4_LateReconnectIsNewSession ==
    [][\A p \in PubIds : Admitted(p) => ~stopped'[pub'[p].stream]]_vars

\* C5: once its reap timer has fired a Broadcast is out of the registry: no
\* name resolves to a stopped Broadcast, so that a later GET is answered 404.
C5_StoppedIsUnregistered ==
    \A n \in Names : streams[n] # NoStream => ~stopped[streams[n]]


\* C6: every end of an admitted publisher session schedules a reap timer for
\* its stream and stores it in collectors, stops nothing and detaches nobody;
\* a Broadcast becomes stopped only in a step in which one of its reap timers
\* expires.
C6_PublisherEndSchedulesReap ==
    [][/\ \A p \in PubIds :
             Ended(p) =>
                 /\ \E t \in TimerIds :
                       /\ timers[t] = NoTimer
                       /\ timers'[t] = pub[p].stream
                       /\ collectors'[pub[p].stream_id] = Pending(t)
                 /\ stopped' = stopped
                 /\ obj' = obj
                 /\ sub' = sub
       /\ \A b \in BIds :
             (stopped'[b] /\ ~stopped[b]) =>
                 /\ \E t \in TimerIds : timers[t] = b /\ timers'[t] = NoTimer
                 /\ pub' = pub]_vars

\* C6 witness: a publisher has ended and its reap timer is pending; the
\* Broadcast is not stopped and a subscriber with a chunk to drain is still
\* connected to it.
C6_Witness ==
    \E n \in Names, t \in TimerIds, s \in SubIds :
        /\ collectors[n] = Pending(t)
        /\ timers[t] # NoTimer
        /\ Feeding(timers[t]) = {}
        /\ ~stopped[timers[t]]
        /\ s \in obj[timers[t]].slots
        /\ sub[s].queue # <<>>

\* C7, in every state: a subscriber is disconnected at most once and only
\* after it was connected, and it holds a slot of its Broadcast exactly while
\* it is connected.
C7_Slots ==
    \A s \in SubIds :
        /\ sub[s].disconnects <= sub[s].connects
        /\ sub[s].connects <= 1
        /\ \A b \in BIds : s \in obj[b].slots <=> (sub[s].stream = b /\ Connected(s))

\* C7, in every step: a request that is over has given its slot back (in that
\* step, if it was still connected); a handler that is cancelled leaves the
\* other subscribers, their slots, the publishers, the timers and the stopped
\* flags as they were.
C7_Steps ==
    \A s \in SubIds :
        /\ (~Free(sub[s]) /\ Free(sub'[s])) =>
               /\ \A b \in BIds : s \notin obj'[b].slots
               /\ sub[s].connects = 1 =>
                      (sub[s].disconnects = 1 \/ s \in obj[sub[s].stream].slots)
        /\ (sub[s].h = "responding" /\ sub'[s].h = "gone" /\ ~sub[s].closed) =>
               /\ \A o \in SubIds \ {s} : sub'[o] = sub[o]
               /\ \A b \in BIds : obj'[b].slots \ {s} = obj[b].slots \ {s}
               /\ pub' = pub /\ timers' = timers /\ stopped' = stopped

\* C7: every connected subscriber is disconnected exactly once on every exit
\* path of its handler, never when it was not connected, and a subscriber's
\* cancellation leaves the other subscribers and the publisher alone.
C7_DisconnectedExactlyOnce == []C7_Slots /\ [][C7_Steps]_vars

\* C7 witness: one subscriber was disconnected because its Broadcast stopped,
\* another one, still connected, has been cancelled by its handler.
C7_Witness ==
    \E s1, s2 \in SubIds :
        /\ sub[s1].connects = 1 /\ sub[s1].disconnects = 1
        /\ sub[s2].h = "gone" /\ sub[s2].w = "cancelled" /\ Connected(s2)

\* C8: a subscriber connected to a stopped Broadcast, and one whose writer
\* starts on a stopped Broadcast, is eventually disconnected with its queue
\* closed, whatever the publishers do.
C8_StopReleasesSubscribers ==
    \A s \in SubIds :
        /\ (Connected(s) /\ stopped[sub[s].stream])
               ~> (~Connected(s) /\ (sub[s].h = "responding" => sub[s].closed))
        /\ (sub[s].w = "created" /\ stopped[sub[s].stream])
               ~> (/\ sub[s].w # "created"
                   /\ ~Connected(s)
                   /\ (sub[s].h = "responding" => sub[s].closed))

\* C8 witness: stop() has been called on a Broadcast while a subscriber's
\* writer waits on it, connected.
C8_Witness ==
    \E s \in SubIds :
        Connected(s) /\ sub[s].w = "waiting" /\ stopped[sub[s].stream]

\* C9: every subscriber queue holds at most one buffered chunk.
C9_QueueAtMostOne == \A s \in SubIds : Len(sub[s].queue) <= 1

\* piece c was dispatched before piece d
Before(c, d) == c.seq < d.seq \/ (c.seq = d.seq /\ c.part < d.part)

\* C10, in every state: the chunks a queue holds are chunks that were
\* dispatched, each once, in dispatch order.
C10_QueueInDispatchOrder ==
    \A s \in SubIds :
        /\ \A i \in DOMAIN sub[s].queue : sub[s].queue[i].seq <= sent
        /\ \A i, j \in DOMAIN sub[s].queue :
               i < j => Before(sub[s].queue[i], sub[s].queue[j])

\* C10, in every step: the body writer takes the chunk dispatched earliest,
\* and what a step adds to a queue goes behind the chunks already there and
\* was not dispatched to that subscriber before.
C10_Steps ==
    \A s \in SubIds :
        (sub[s].h = "responding" /\ sub'[s].h = "responding"
         /\ sub[s].stream = sub'[s].stream /\ sub[s].w # "created") =>
            \/ sub'[s].queue = sub[s].queue
            \/ /\ sub[s].queue # <<>>
               /\ sub'[s].queue = Tail(sub[s].queue)
            \/ /\ Len(sub'[s].queue) > Len(sub[s].queue)
               /\ SubSeq(sub'[s].queue, 1, Len(sub[s].queue)) = sub[s].queue
               /\ \A i \in (Len(sub[s].queue) + 1)..Len(sub'[s].queue) :
                      sub'[s].queue[i].seq > sent

\* C10: what a subscriber takes out of its queue is a subsequence of what was
\* dispatched to it, in dispatch order: nothing reordered, nothing twice.
C10_InDispatchOrder == []C10_QueueInDispatchOrder /\ [][C10_Steps]_vars

\* C10 witness: two connected subscribers after two chunks were sent; one
\* still holds the header and the cluster prefix, so that the cluster body
\* was dropped for it, the other has drained them and holds the body.
C10_Witness ==
    \E s1, s2 \in SubIds :
        /\ Connected(s1) /\ Connected(s2)
        /\ Len(sub[s1].queue) = 2
        /\ Len(sub[s2].queue) = 1
        /\ sub[s2].queue[1].kind = "body"
        /\ sub[s1].queue[2].kind = "cluster"

C11_Steps ==
    \A s \in SubIds :
        LET old == sub[s].queue
            new == sub'[s].queue
            add == SubSeq(new, Len(old) + 1, Len(new))
            cs  == Pieces(last'.evs, sent')
        IN  /\ (sub[s].w = "created" /\ sub'[s].connects = 1
                   /\ obj[sub[s].stream].header_closed) =>
                   /\ Len(new) = IF obj[sub[s].stream].cluster_open THEN 2 ELSE 1
                   /\ new[1].kind = "header_buffer"
                   /\ Len(new) = 2 => new[2].kind = "cluster_prefix"
                   /\ \A i \in DOMAIN new : new[i].seq = sent
            /\ (last' # NoSend /\ s \in obj[last'.stream].slots) =>
                   /\ Len(new) >= Len(old)
                   /\ SubSeq(new, 1, Len(old)) = old
                   /\ Framing(SelectSeq(add, IsForced)) = SelectSeq(cs, IsForced)
                   /\ \A i \in DOMAIN add : \E j \in DOMAIN cs : Framing(add)[i] = cs[j]
                   /\ \A i, j \in DOMAIN add : i < j => add[i].part < add[j].part
            /\ (last' # NoSend /\ s \notin obj[last'.stream].slots) => new = old
            /\ (last' = NoSend /\ Connected(s) /\ sub'[s].connects = 1
                   /\ sub'[s].h = sub[s].h) =>
                   (new = old \/ (old # <<>> /\ new = Tail(old)))

IsCluster(c) == c.kind \in {"cluster", "cluster_prefix"}

\* C12: the cluster Timecodes a subscriber that joined mid-broadcast (one with
\* ts_offset other than 0) is sent are non-negative and non-decreasing, and
\* the cluster it is primed with has Timecode 0, also when the clusters come
\* from a publisher that reconnected.
C12_TimecodesFromZero ==
    \A s \in SubIds :
        sub[s].ts_offset > 0 =>
            LET q == sub[s].queue
            IN  /\ \A i \in DOMAIN q : IsCluster(q[i]) => q[i].timecode >= 0
                /\ \A i \in DOMAIN q : q[i].kind = "cluster_prefix" => q[i].timecode = 0
                /\ \A i, j \in DOMAIN q :
                       (i < j /\ IsCluster(q[i]) /\ IsCluster(q[j])) =>
                           q[i].timecode <= q[j].timecode

\* C13: send() on a Broadcast on which stop() has been called delivers
\* nothing to any subscriber and leaves the header buffer and the cluster
\* state as they were (it fails with SessionClosed).
C13_SendOnStoppedFails ==
    [][(last' # NoSend /\ stopped[last'.stream]) => (sub' = sub /\ obj' = obj)]_vars

\* C14: when send() rejects the first bytes of the POST that made the
\* Broadcast of a name, the name does not resolve afterwards: a GET for it is
\* answered 404.
C14_RejectedPostLeavesNoBroadcast ==
    [][\A p \in PubIds :
          (/\ Ended(p)
           /\ resp'.exc = "ValueError"
           /\ pub[p].made
           /\ ~obj[pub[p].stream].header_closed) =>
              streams'[pub[p].stream_id] = NoStream]_vars

\* subscribers attached to Broadcast b
Attached(b) == {s \in SubIds : sub[s].stream = b /\ Connected(s)}

\* Broadcast b has an owner: a publisher streaming into it, a pending reap
\* timer, an attached subscriber
Owned(b) == Feeding(b) # {} \/ PendingFor(b) # {} \/ Attached(b) # {}

\* a name of the registry resolves to Broadcast b (the object is alive)
Resolvable(b) == \E n \in Names : streams[n] = b

\* C15, in every state: a Broadcast that has an owner is resolvable.
C15_OwnedIsResolvable == \A b \in BIds : Owned(b) => Resolvable(b)

\* C15, in every step: a Broadcast leaves the registry only when nothing owns
\* it any more, in a step in which its last holder lets it go.
C15_Steps ==
    \A b \in BIds :
        (Resolvable(b) /\ ~Resolvable(b)') =>
            /\ ~Owned(b)'
            /\ Held(b, pub, timers, sub)
            /\ ~Held(b, pub', timers', sub')

\* C15: a Broadcast stays resolvable, and is not destroyed, as long as a
\* publisher streams into it, a reap timer for it is pending or a subscriber
\* is attached to it; it goes only after all of them have released it.
C15_KeptWhileOwned == []C15_OwnedIsResolvable /\ [][C15_Steps]_vars

\* C15 witness: a stopped Broadcast without publisher and without reap timer
\* is still resolvable, kept by the subscriber attached to it.
C15_Witness ==
    \E b \in BIds :
        /\ stopped[b] /\ Feeding(b) = {} /\ PendingFor(b) = {}
        /\ Attached(b) # {}
        /\ Resolvable(b)

\* C16, in every step that sends a cluster-body chunk (not forced): for a
\* connected subscriber whose queue is not empty the callback returns -1 and
\* the subscriber is as it was; for one whose queue is empty the callback
\* returns 0 and the queue holds the chunk; each subscriber on its own.
C16_Steps ==
    (last' # NoSend /\ last'.evs = <<"body">>) =>
        \A s \in obj[last'.stream].slots :
            LET body == Stamp(Pieces(last'.evs, sent')[1], 0)
            IN  IF sub[s].queue # <<>>
                THEN /\ on_chunk_cb(sub[s].queue, body, FALSE) = -1
                     /\ sub'[s] = sub[s]
                ELSE /\ on_chunk_cb(sub[s].queue, body, FALSE) = 0
                     /\ sub'[s] = [sub[s] EXCEPT !.queue = <<body>>]

\* C16: a chunk that is not forced is dropped for the subscribers whose queue
\* is not empty, and for those only: their queue is unchanged, the callback
\* reports failure; the subscribers whose queue is empty get the chunk.
C16_BodyDroppedWhenBusy == [][C16_Steps]_vars

\* C16 witness: a cluster-body chunk has just been sent to two connected
\* subscribers; one still holds older chunks and not this one, the other
\* holds this chunk alone.
C16_Witness ==
    /\ last.evs = <<"body">>
    /\ \E s1, s2 \in obj[last.stream].slots :
          /\ sub[s1].queue # <<>>
          /\ \A i \in DOMAIN sub[s1].queue : sub[s1].queue[i].seq < sent
          /\ Len(sub[s2].queue) = 1
          /\ sub[s2].queue[1].kind = "body"
          /\ sub[s2].queue[1].seq = sent

\* C17: when a forced chunk (header bytes, a cluster prefix) is sent while a
\* connected subscriber's queue holds a chunk already, the push fails for that
\* subscriber: its queue takes nothing and it is disconnected.
C17_ForcedOverflowDisconnects ==
    [][(last' # NoSend /\ Forced(last'.evs[1])) =>
          \A s \in obj[last'.stream].slots :
              sub[s].queue # <<>> =>
                  /\ sub'[s].queue = sub[s].queue
                  /\ s \notin obj'[last'.stream].slots]_vars

\* C18: no step calls stop() on a Broadcast that a publisher is streaming
\* into, and when a publisher is admitted no reap timer of its Broadcast is
\* left pending.
C18_NoStopWhileStreaming ==
    [][/\ \A b \in BIds : (stopped'[b] /\ ~stopped[b]) => Feeding(b) = {}
       /\ \A p \in PubIds :
             Admitted(p) => \A t \in TimerIds : timers'[t] # pub'[p].stream]_vars

\* C19, in every state: a closed queue belongs to a subscriber that was
\* connected and has been disconnected, and holds no slot.
C19_ClosedIsDisconnected ==
    \A s \in SubIds :
        sub[s].closed =>
            /\ sub[s].connects = 1 /\ sub[s].disconnects = 1
            /\ \A b \in BIds : s \notin obj[b].slots

\* C19, in every step: the step that disconnects a subscriber closes its
\* queue and sends nothing; a queue that is closed, or whose subscriber has
\* been disconnected, takes no chunk.
C19_Steps ==
    \A s \in SubIds :
        /\ (Connected(s) /\ ~Connected(s)') =>
               /\ last' = NoSend
               /\ sub'[s].closed \/ sub'[s] = Idle
        /\ (sub[s].closed \/ sub[s].disconnects = 1) =>
               \/ sub'[s].queue = sub[s].queue
               \/ sub[s].queue # <<>> /\ sub'[s].queue = Tail(sub[s].queue)
               \/ sub'[s] = Idle

\* C19: nothing is enqueued into a subscriber's queue after the subscriber
\* was disconnected or the queue was closed; the queue is closed in the step
\* that disconnects the slot, so that no send runs in between.
C19_NoEnqueueAfterDisconnect == []C19_ClosedIsDisconnected /\ [][C19_Steps]_vars

\* C19 witness: a chunk has just been sent to the Broadcast of a subscriber
\* that was disconnected, whose queue is closed and whose handler is still
\* responding; the chunk is not in its queue.
C19_Witness ==
    /\ last # NoSend
    /\ \E s \in SubIds :
          /\ sub[s].stream = last.stream
          /\ sub[s].h = "responding"
          /\ sub[s].closed
          /\ sub[s].disconnects = 1
          /\ \A i \in DOMAIN sub[s].queue : sub[s].queue[i].seq < sent

\* C20: every entry of collectors is a reap timer that is still pending and
\* belongs to the Broadcast registered under that name; a Broadcast has at
\* most one pending reap timer, and every pending reap timer is an entry of
\* collectors.
C20_CollectorsArePendingTimers ==
    /\ \A n \in Names :
          collectors[n] # NoEntry =>
              \E t \in TimerIds : /\ collectors[n] = Pending(t)
                                   /\ timers[t] # NoTimer
                                   /\ timers[t] = streams[n]
    /\ \A b \in BIds : Cardinality(PendingFor(b)) <= 1
    /\ \A t \in TimerIds :
          timers[t] # NoTimer => \E n \in Names : collectors[n] = Pending(t)

====
